---- MODULE Spec2Model ----
(***************************************************************************)
(* URL maliciousness predictor (src/app.py): the feature-extraction and    *)
(* heuristic-scoring pipeline.  A URL is a sequence of one-character       *)
(* strings, indexed as Python indexes it (0-based) in the string helpers.  *)
(* A call that may raise returns a record whose field ok tells whether it  *)
(* returned (ok = TRUE, the value in v) or raised (ok = FALSE).            *)
(***************************************************************************)
EXTENDS Integers, Sequences, FiniteSets, TLC

(***************************************************************************)
(* Bounds of the model.                                                    *)
(***************************************************************************)
\* Clock resolution: instants are counted in ticks, TicksPerDay to the day.
TicksPerDay == 2
\* The longest redirect history a fetched response carries.
MaxHops == 3

(***************************************************************************)
(* Constants of the program.                                               *)
(***************************************************************************)
LongUrlLen == 54
RedirectPos == 6
RankLimit == 100000
DaysPerMonth == 30
MinMonths == 6
HopLimit == 2
SafeThreshold == 12
NumFeatures == 16

(***************************************************************************)
(* Python's str operations on sequences of characters.                     *)
(***************************************************************************)
Min(S) == CHOOSE x \in S : \A y \in S : x <= y
Max(S) == CHOOSE x \in S : \A y \in S : x >= y

\* s[a:b] for 0 <= a, with b clipped to len(s)
Slice(s, a, b) == SubSeq(s, a + 1, IF b > Len(s) THEN Len(s) ELSE b)

\* s[a:]
From(s, a) == SubSeq(s, a + 1, Len(s))

\* whether pat occurs in s at 0-based position i
OccursAt(s, pat, i) ==
    /\ i >= 0
    /\ i + Len(pat) <= Len(s)
    /\ \A k \in 1..Len(pat) : s[i + k] = pat[k]

\* s.find(pat, start): the lowest index >= start, or -1
FindFrom(s, pat, start) ==
    LET I == {i \in start..(Len(s) - Len(pat)) : OccursAt(s, pat, i)}
    IN  IF I = {} THEN -1 ELSE Min(I)

\* s.find(pat)
Find(s, pat) == FindFrom(s, pat, 0)

\* s.rfind(pat): the highest index, or -1
RFind(s, pat) ==
    LET I == {i \in 0..(Len(s) - Len(pat)) : OccursAt(s, pat, i)}
    IN  IF I = {} THEN -1 ELSE Max(I)

\* pat in s
Contains(s, pat) == Find(s, pat) >= 0

\* s.split(c) for a one-character separator c
RECURSIVE Split(_, _)
Split(s, c) ==
    LET i == Find(s, <<c>>)
    IN  IF i < 0 THEN <<s>>
        ELSE <<Slice(s, 0, i)>> \o Split(From(s, i + 1), c)

Letters ==
    {"a", "b", "c", "d", "e", "f", "g", "h", "i", "j", "k", "l", "m",
     "n", "o", "p", "q", "r", "s", "t", "u", "v", "w", "x", "y", "z"}
DigitChars == {"0", "1", "2", "3", "4", "5", "6", "7", "8", "9"}
HexChars == DigitChars \cup {"a", "b", "c", "d", "e", "f"}
\* urllib.parse.scheme_chars (the model's URLs are lower case)
SchemeChars == Letters \cup DigitChars \cup {"+", "-", "."}

DigitVal(c) ==
    CASE c = "0" -> 0 [] c = "1" -> 1 [] c = "2" -> 2 [] c = "3" -> 3
      [] c = "4" -> 4 [] c = "5" -> 5 [] c = "6" -> 6 [] c = "7" -> 7
      [] c = "8" -> 8 [] c = "9" -> 9

\* int(s, 10) for a non-empty string of decimal digits
RECURSIVE DecimalValue(_)
DecimalValue(s) ==
    IF Len(s) = 0 THEN 0
    ELSE 10 * DecimalValue(SubSeq(s, 1, Len(s) - 1)) + DigitVal(s[Len(s)])

(***************************************************************************)
(* urllib.parse.urlparse, as far as the program reads its result: scheme,  *)
(* netloc and path, or ValueError.  The model's URLs hold no upper-case    *)
(* letter, no white space and no ';', so the lower-casing of the scheme,   *)
(* the stripping of control characters and the splitting of ';' parameters *)
(* have nothing to act on.  A bracketed host is checked for its brackets   *)
(* pairing up; Python from 3.11.4 on also rejects a bracketed host that is *)
(* no IPv6 address, which no URL of the model has.                         *)
(***************************************************************************)
ParseRaised == [ok |-> FALSE, scheme |-> <<>>, netloc |-> <<>>, path |-> <<>>]

\* _splitnetloc(url, 2): the end of the authority, the earliest of / ? #
NetlocEnd(url) ==
    LET D == {FindFrom(url, <<c>>, 2) : c \in {"/", "?", "#"}} \ {-1}
    IN  IF D = {} THEN Len(url) ELSE Min(D)

\* the part of s before the first c, or s when c does not occur
Before(s, c) ==
    LET i == Find(s, <<c>>) IN IF i < 0 THEN s ELSE Slice(s, 0, i)

urlparse(url) ==
    LET i == Find(url, <<":">>)
        hasScheme ==
            /\ i > 0
            /\ url[1] \in Letters
            /\ \A k \in 1..i : url[k] \in SchemeChars
        scheme == IF hasScheme THEN Slice(url, 0, i) ELSE <<>>
        rest == IF hasScheme THEN From(url, i + 1) ELSE url
        hasNetloc == Slice(rest, 0, 2) = <<"/", "/">>
        netloc == IF hasNetloc THEN Slice(rest, 2, NetlocEnd(rest)) ELSE <<>>
        tail == IF hasNetloc THEN From(rest, NetlocEnd(rest)) ELSE rest
        open == Contains(netloc, <<"[">>)
        close == Contains(netloc, <<"]">>)
    IN  IF (open /\ ~close) \/ (close /\ ~open)
        THEN ParseRaised
        ELSE [ok |-> TRUE, scheme |-> scheme, netloc |-> netloc,
              path |-> Before(Before(tail, "#"), "?")]

(***************************************************************************)
(* ipaddress.ip_address on a string: whether it parses (IPv4, then IPv6).  *)
(***************************************************************************)
\* IPv4Address._parse_octet returns rather than raises
ValidOctet(o) ==
    /\ Len(o) > 0
    /\ \A k \in 1..Len(o) : o[k] \in DigitChars
    /\ Len(o) <= 3
    /\ ~(o # <<"0">> /\ o[1] = "0")
    /\ DecimalValue(o) <= 255

\* IPv4Address(s) returns rather than raises
IsIPv4(s) ==
    /\ Len(s) > 0
    /\ ~Contains(s, <<"/">>)
    /\ LET octets == Split(s, ".")
       IN  /\ Len(octets) = 4
           /\ \A k \in 1..4 : ValidOctet(octets[k])

\* IPv6Address._parse_hextet returns rather than raises
ValidHextet(h) ==
    /\ Len(h) > 0
    /\ \A k \in 1..Len(h) : h[k] \in HexChars
    /\ Len(h) <= 4

\* IPv6Address(s) returns rather than raises
IsIPv6(s) ==
    /\ Len(s) > 0
    /\ ~Contains(s, <<"/">>)
    /\ LET raw == Split(s, ":")
           v4tail == Len(raw) >= 3 /\ Contains(raw[Len(raw)], <<".">>)
           \* an IPv4 suffix is replaced by the two hextets it stands for
           parts == IF v4tail
                    THEN SubSeq(raw, 1, Len(raw) - 1) \o <<<<"0">>, <<"0">>>>
                    ELSE raw
           n == Len(parts)
           skips == {j \in 1..(n - 2) : parts[j + 1] = <<>>}
       IN  /\ Len(raw) >= 3
           /\ v4tail => IsIPv4(raw[Len(raw)])
           /\ n <= 9
           /\ Cardinality(skips) <= 1
           /\ IF skips # {}
              THEN LET skip == CHOOSE j \in skips : TRUE
                       hi0 == skip
                       lo0 == n - skip - 1
                       hi == IF parts[1] = <<>> THEN hi0 - 1 ELSE hi0
                       lo == IF parts[n] = <<>> THEN lo0 - 1 ELSE lo0
                   IN  /\ parts[1] = <<>> => hi = 0
                       /\ parts[n] = <<>> => lo = 0
                       /\ 8 - (hi + lo) >= 1
                       /\ \A k \in 1..hi : ValidHextet(parts[k])
                       /\ \A k \in (n - lo + 1)..n : ValidHextet(parts[k])
              ELSE /\ n = 8
                   /\ \A k \in 1..n : ValidHextet(parts[k])

\* ipaddress.ip_address(s) returns rather than raising ValueError
IsIPAddress(s) == IsIPv4(s) \/ IsIPv6(s)

(***************************************************************************)
(* The outcome of a call: a value, or an exception.                        *)
(***************************************************************************)
Ok(x) == [ok |-> TRUE, v |-> x]
Raise == [ok |-> FALSE, v |-> 0]

(***************************************************************************)
(* Address-bar features.                                                   *)
(***************************************************************************)
SHORTENING_SERVICES ==
    {<<"b", "i", "t", ".", "l", "y">>,
     <<"g", "o", "o", ".", "g", "l">>,
     <<"s", "h", "o", "r", "t", "e", ".", "s", "t">>,
     <<"t", "i", "n", "y", "u", "r", "l">>,
     <<"t", ".", "c", "o">>,
     <<"i", "s", ".", "g", "d">>,
     <<"c", "l", "i", ".", "g", "s">>,
     <<"t", "i", "n", "y", ".", "c", "c">>,
     <<"u", "r", "l", "4", ".", "e", "u">>,
     <<"o", "w", ".", "l", "y">>,
     <<"j", ".", "m", "p">>}

\* the whole argument is handed to ipaddress.ip_address; ValueError gives 0
having_ip(url) == Ok(IF IsIPAddress(url) THEN 1 ELSE 0)

have_at_sign(url) == Ok(IF Contains(url, <<"@">>) THEN 1 ELSE 0)

get_length(url) == Ok(IF Len(url) >= LongUrlLen THEN 1 ELSE 0)

\* urlparse is called outside any try: its ValueError leaves the function
get_depth(url) ==
    LET parsed == urlparse(url)
        path_segments == Split(parsed.path, "/")
    IN  IF ~parsed.ok THEN Raise
        ELSE Ok(Cardinality({k \in 1..Len(path_segments) :
                                 path_segments[k] # <<>>}))

redirection(url) ==
    LET pos == RFind(url, <<"/", "/">>)
    IN  Ok(IF pos > RedirectPos THEN 1 ELSE 0)

http_domain(url) ==
    LET parsed == urlparse(url)
    IN  IF ~parsed.ok THEN Raise
        ELSE Ok(IF Contains(parsed.netloc, <<"h", "t", "t", "p", "s">>)
                THEN 1 ELSE 0)

tiny_url(url) ==
    Ok(IF \E pat \in SHORTENING_SERVICES : Contains(url, pat) THEN 1 ELSE 0)

prefix_suffix(url) ==
    LET parsed == urlparse(url)
    IN  IF ~parsed.ok THEN Raise
        ELSE Ok(IF Contains(parsed.netloc, <<"-">>) THEN 1 ELSE 0)

\* the exception is swallowed and the domain is the empty string
clean_domain(url) ==
    LET parsed == urlparse(url)
    IN  IF ~parsed.ok THEN <<>> ELSE Split(parsed.netloc, ":")[1]

(***************************************************************************)
(* Statements that append to the feature list one call after another.      *)
(***************************************************************************)
\* the index of the first call of calls that raises, 0 when none does
FirstRaise(calls) ==
    LET R == {k \in 1..Len(calls) : ~calls[k].ok}
    IN  IF R = {} THEN 0 ELSE Min(R)

Values(calls) == [k \in 1..Len(calls) |-> calls[k].v]

\* features.append(c1()); features.append(c2()); ... with no handler: the
\* list as the last statement leaves it, and whether an exception escaped
AppendAll(acc, calls) ==
    LET r == FirstRaise(calls)
    IN  IF r = 0
        THEN [ok |-> TRUE, v |-> acc \o Values(calls)]
        ELSE [ok |-> FALSE, v |-> acc \o SubSeq(Values(calls), 1, r - 1)]

\* try: features.append(c1()); ... except: features.extend(fallback)
\* What was appended before the exception stays in the list.
TryAppend(acc, calls, fallback) ==
    LET r == AppendAll(acc, calls)
    IN  IF r.ok THEN r.v ELSE r.v \o fallback

\* lines 124-131
LexicalCalls(url) ==
    <<having_ip(url), have_at_sign(url), get_length(url), get_depth(url),
      redirection(url), http_domain(url), tiny_url(url), prefix_suffix(url)>>

(***************************************************************************)
(* The URLs submitted in the model.                                        *)
(***************************************************************************)
UrlEmpty == <<>>
\* http://192.168.0.1/login
UrlIpLogin ==
    <<"h", "t", "t", "p", ":", "/", "/", "1", "9", "2", ".", "1", "6",
      "8", ".", "0", ".", "1", "/", "l", "o", "g", "i", "n">>
\* 192.168.0.1
UrlBareIp ==
    <<"1", "9", "2", ".", "1", "6", "8", ".", "0", ".", "1">>
\* http://bit.ly/xyz
UrlShortener ==
    <<"h", "t", "t", "p", ":", "/", "/", "b", "i", "t", ".", "l", "y",
      "/", "x", "y", "z">>
\* http://example.com
UrlPlain ==
    <<"h", "t", "t", "p", ":", "/", "/", "e", "x", "a", "m", "p", "l",
      "e", ".", "c", "o", "m">>
\* /only/path
UrlPathOnly ==
    <<"/", "o", "n", "l", "y", "/", "p", "a", "t", "h">>
\* example.com/a/b
UrlNoScheme ==
    <<"e", "x", "a", "m", "p", "l", "e", ".", "c", "o", "m", "/", "a",
      "/", "b">>
\* http://[::1
UrlOpenBracket ==
    <<"h", "t", "t", "p", ":", "/", "/", "[", ":", ":", "1">>
\* http://[::1]:80/a
UrlIp6Host ==
    <<"h", "t", "t", "p", ":", "/", "/", "[", ":", ":", "1", "]", ":",
      "8", "0", "/", "a">>
\* https://https-paypal.com//a@b
UrlSpoof ==
    <<"h", "t", "t", "p", "s", ":", "/", "/", "h", "t", "t", "p", "s",
      "-", "p", "a", "y", "p", "a", "l", ".", "c", "o", "m", "/", "/", "a",
      "@", "b">>
\* http://example.com/ followed by a's, 80 characters in all
UrlLong ==
    <<"h", "t", "t", "p", ":", "/", "/", "e", "x", "a", "m", "p", "l",
      "e", ".", "c", "o", "m", "/">> \o [k \in 1..61 |-> "a"]

URLS ==
    {UrlEmpty, UrlIpLogin, UrlBareIp, UrlShortener, UrlPlain, UrlPathOnly,
     UrlNoScheme, UrlOpenBracket, UrlIp6Host, UrlSpoof, UrlLong}

\* the eight calls for each URL of the model, computed once
LexTable == [u \in URLS |-> LexicalCalls(u)]

(***************************************************************************)
(* Domain-based features.  A date of the registry record is None, a string *)
(* in %Y-%m-%d form (of a day number t), a string in another form, or a    *)
(* datetime (of an instant t, in ticks).                                   *)
(***************************************************************************)
NoDate == [k |-> "none", t |-> 0]
DateStr(day) == [k |-> "str", t |-> day]
BadDateStr == [k |-> "badstr", t |-> 0]
DateTime(tick) == [k |-> "datetime", t |-> tick]

\* The instant a date field stands for once the isinstance(str) branch has
\* run strptime on it (midnight of the day), as the subtraction needs it:
\* strptime raises ValueError on another form, and None makes the
\* subtraction raise TypeError.
Instant(d) ==
    CASE d.k = "str" -> Ok(d.t * TicksPerDay)
      [] d.k = "datetime" -> Ok(d.t)
      [] OTHER -> Raise

\* timedelta.days: whole days, rounded down
Days(delta) == delta \div TicksPerDay

\* the rank lookup: any failure is swallowed and counts as suspicious
web_traffic_unguarded(t) ==
    IF ~t.ok THEN Raise ELSE Ok(IF t.rank < RankLimit THEN 1 ELSE 0)

web_traffic(t) ==
    IF ~t.ok THEN Ok(1) ELSE Ok(IF t.rank < RankLimit THEN 1 ELSE 0)

\* days / 30 >= 6, in integers
domain_age(domain_name) ==
    LET creation_date == Instant(domain_name.creation_date)
        expiration_date == Instant(domain_name.expiration_date)
    IN  IF ~creation_date.ok \/ ~expiration_date.ok THEN Ok(1)
        ELSE Ok(IF Days(expiration_date.v - creation_date.v)
                     >= MinMonths * DaysPerMonth
                THEN 0 ELSE 1)

\* clock is what datetime.now() returns
domain_end(domain_name, clock) ==
    LET expiration_date == Instant(domain_name.expiration_date)
    IN  IF ~expiration_date.ok THEN Ok(1)
        ELSE Ok(IF Days(expiration_date.v - clock)
                     >= MinMonths * DaysPerMonth
                THEN 0 ELSE 1)

(***************************************************************************)
(* HTML and script features.  The body of a response is the set of the     *)
(* patterns that match it; failAt names the sub-check that raises on this  *)
(* response ("none": none does).  requests.get returns a Response or       *)
(* raises, so the branch for response == "" is never taken.                *)
(***************************************************************************)
iframe(response) ==
    IF response.failAt = "iframe" THEN Raise
    ELSE Ok(IF "iframe" \notin response.body THEN 1 ELSE 0)

mouse_over(response) ==
    IF response.failAt = "mouse_over" THEN Raise
    ELSE Ok(IF "onmouseover" \in response.body THEN 1 ELSE 0)

right_click(response) ==
    IF response.failAt = "right_click" THEN Raise
    ELSE Ok(IF "event.button==2" \notin response.body THEN 1 ELSE 0)

forwarding(response) ==
    IF response.failAt = "forwarding" THEN Raise
    ELSE Ok(IF response.hops > HopLimit THEN 1 ELSE 0)

(***************************************************************************)
(* The three groups of feature_extraction.                                 *)
(***************************************************************************)
Fallback == <<1, 1, 1, 1>>

\* features = []
NewFeatures_stale(old) == old

NewFeatures(old) == <<>>

\* the DNS flag appended before the lookup instead of after it
RegistryGroup_early(acc, w, t, clock) ==
    IF ~w.ok THEN (acc \o <<0>>) \o Fallback
    ELSE TryAppend(acc, <<Ok(0), web_traffic(t), domain_age(w),
                          domain_end(w, clock)>>, Fallback)

\* lines 134-142: w is what whois.whois does, t what the rank lookup does
RegistryGroup(acc, w, t, clock) ==
    IF ~w.ok THEN acc \o Fallback
    ELSE TryAppend(acc, <<Ok(0), web_traffic(t), domain_age(w),
                          domain_end(w, clock)>>, Fallback)

\* lines 145-152: p is what requests.get does
ContentGroup(acc, p) ==
    IF ~p.ok THEN acc \o Fallback
    ELSE TryAppend(acc, <<iframe(p), mouse_over(p), right_click(p),
                          forwarding(p)>>, Fallback)

(***************************************************************************)
(* predict_url                                                             *)
(***************************************************************************)
RECURSIVE Sum(_)
Sum(fs) == IF Len(fs) = 0 THEN 0 ELSE fs[1] + Sum(Tail(fs))

\* safe points taken as 16 minus the raw sum
SafePoints_rawsum(fs) == NumFeatures - Sum(fs)

\* sum(1 for val in features if val == 0)
SafePoints(fs) == Cardinality({k \in 1..Len(fs) : fs[k] = 0})

Heuristic(points) == IF points >= SafeThreshold THEN "safe" ELSE "malicious"

(***************************************************************************)
(* What the collaborators may answer.                                      *)
(***************************************************************************)
HalfYear == MinMonths * DaysPerMonth

WhoisFails == [ok |-> FALSE, creation_date |-> NoDate,
               expiration_date |-> NoDate]
WHOIS ==
    {WhoisFails} \cup
    {[ok |-> TRUE, creation_date |-> c, expiration_date |-> e] :
        c \in {NoDate, DateStr(1)},
        e \in {BadDateStr, DateStr(HalfYear), DateStr(HalfYear + 1),
               DateTime(2 * HalfYear * TicksPerDay + 1)}}

TrafficFails == [ok |-> FALSE, rank |-> 0]
TRAFFIC ==
    {TrafficFails} \cup {[ok |-> TRUE, rank |-> r] : r \in {RankLimit - 1, RankLimit}}

FetchFails == [ok |-> FALSE, body |-> {}, hops |-> 0, failAt |-> "none"]
SubChecks == {"iframe", "mouse_over", "right_click", "forwarding"}
PAGES ==
    {FetchFails} \cup
    {[ok |-> TRUE, body |-> {}, hops |-> 0, failAt |-> "none"],
     [ok |-> TRUE, body |-> {"iframe", "event.button==2"}, hops |-> HopLimit,
      failAt |-> "none"],
     [ok |-> TRUE, body |-> {"iframe", "onmouseover", "event.button==2"},
      hops |-> MaxHops, failAt |-> "none"]} \cup
    {[ok |-> TRUE, body |-> {"iframe", "event.button==2"}, hops |-> 0,
      failAt |-> f] : f \in SubChecks}

\* the instants at which datetime.now() is read
CLOCK == {0, 1, (HalfYear + 2) * TicksPerDay}

NoPrev == [kind |-> "none", vec |-> <<>>, returned |-> FALSE, now |-> 0]

(***************************************************************************)
(* The state: one request at a time (section 5), from the call of          *)
(* predict_url(url, show_debug=True) to the verdict or the exception.      *)
(***************************************************************************)
VARIABLES
    url,            \* the argument of predict_url
    whoisRes,       \* what whois.whois does in this run
    trafficRes,     \* what the rank lookup does in this run
    pageRes,        \* what requests.get does in this run
    now,            \* what datetime.now() returns in this run
    pc,             \* where the run stands
    features,       \* the list feature_extraction builds
    domain_clean,   \* the host handed to whois.whois
    calls,          \* the collaborators called in this run
    error,          \* the exception that left predict_url, "none" if none
    prediction,     \* the classifier's label, -1 before it is known
    safe_points,    \* -1 before it is computed
    verdict,        \* the heuristic's verdict, "" before it is computed
    prev            \* the previous run, when this one repeats its request

vars == <<url, whoisRes, trafficRes, pageRes, now, pc, features,
          domain_clean, calls, error, prediction, safe_points, verdict, prev>>

Init ==
    /\ url = <<>>
    /\ whoisRes = WhoisFails
    /\ trafficRes = TrafficFails
    /\ pageRes = FetchFails
    /\ now = 0
    /\ pc = "idle"
    /\ features = <<>>
    /\ domain_clean = <<>>
    /\ calls = {}
    /\ error = "none"
    /\ prediction = -1
    /\ safe_points = -1
    /\ verdict = ""
    /\ prev = NoPrev

Finished == pc \in {"shown", "crashed"}

\* whether feature_extraction returned in the run that has finished
Returned == error # "ValueError"

\* line 160-121: predict_url calls feature_extraction, which starts a list
Start(u, w, t, p, n, pv) ==
    /\ url' = u
    /\ whoisRes' = w
    /\ trafficRes' = t
    /\ pageRes' = p
    /\ now' = n
    /\ pc' = "lexical"
    /\ features' = NewFeatures(features)
    /\ domain_clean' = <<>>
    /\ calls' = {}
    /\ error' = "none"
    /\ prediction' = -1
    /\ safe_points' = -1
    /\ verdict' = ""
    /\ prev' = pv

\* lines 194-196: the Predict button with a non-empty input, whatever the
\* collaborators will answer
Submit ==
    /\ pc = "idle"
    /\ \E u \in URLS, w \in WHOIS, t \in TRAFFIC, p \in PAGES, n \in CLOCK :
          /\ u # <<>>
          /\ Start(u, w, t, p, n, NoPrev)

\* lines 194-198: the Predict button with an empty input only warns
Warn ==
    /\ pc = "idle"
    /\ \E u \in URLS :
          /\ u = <<>>
          /\ url' = u
    /\ pc' = "warned"
    /\ UNCHANGED <<whoisRes, trafficRes, pageRes, now, features,
                   domain_clean, calls, error, prediction, safe_points,
                   verdict, prev>>

\* the same request again, the collaborators answering as before
Resubmit ==
    /\ Finished
    /\ prev.kind = "none"
    /\ \E n \in CLOCK :
          Start(url, whoisRes, trafficRes, pageRes, n,
                [kind |-> "same", vec |-> features, returned |-> Returned,
                 now |-> now])

\* the same request again, the registry lookup now failing
ResubmitRegistryDown ==
    /\ Finished
    /\ prev.kind = "none"
    /\ whoisRes.ok
    /\ Start(url, WhoisFails, trafficRes, pageRes, now,
             [kind |-> "registryDown", vec |-> features,
              returned |-> Returned, now |-> now])

\* the same request again, the page fetch now failing
ResubmitFetchDown ==
    /\ Finished
    /\ prev.kind = "none"
    /\ pageRes.ok
    /\ Start(url, whoisRes, trafficRes, FetchFails, now,
             [kind |-> "fetchDown", vec |-> features,
              returned |-> Returned, now |-> now])

\* the script run is over and nothing of it is kept: the page waits
Forget ==
    /\ Finished \/ pc = "warned"
    /\ url' = <<>>
    /\ whoisRes' = WhoisFails
    /\ trafficRes' = TrafficFails
    /\ pageRes' = FetchFails
    /\ now' = 0
    /\ pc' = "idle"
    /\ features' = <<>>
    /\ domain_clean' = <<>>
    /\ calls' = {}
    /\ error' = "none"
    /\ prediction' = -1
    /\ safe_points' = -1
    /\ verdict' = ""
    /\ prev' = NoPrev

\* lines 124-131: eight appends, no handler around them
Lexical ==
    /\ pc = "lexical"
    /\ LET r == AppendAll(features, LexTable[url])
       IN  /\ features' = r.v
           /\ pc' = IF r.ok THEN "registry" ELSE "crashed"
           /\ error' = IF r.ok THEN "none" ELSE "ValueError"
    /\ UNCHANGED <<url, whoisRes, trafficRes, pageRes, now, domain_clean,
                   calls, prediction, safe_points, verdict, prev>>

\* lines 134-142
Registry ==
    /\ pc = "registry"
    /\ domain_clean' = clean_domain(url)
    /\ features' = RegistryGroup(features, whoisRes, trafficRes, now)
    /\ calls' = calls \cup (IF whoisRes.ok THEN {"whois", "traffic"}
                            ELSE {"whois"})
    /\ pc' = "content"
    /\ UNCHANGED <<url, whoisRes, trafficRes, pageRes, now, error,
                   prediction, safe_points, verdict, prev>>

\* lines 145-154: the content group, then return features
Content ==
    /\ pc = "content"
    /\ features' = ContentGroup(features, pageRes)
    /\ calls' = calls \cup {"fetch"}
    /\ pc' = "returned"
    /\ UNCHANGED <<url, whoisRes, trafficRes, pageRes, now, domain_clean,
                   error, prediction, safe_points, verdict, prev>>

\* The pickled classifier was fitted on NumFeatures columns (section 6 of
\* the specification: it accepts exactly one 16-element vector): predict
\* raises on a vector of another width.
ClassifierAccepts(fs) == Len(fs) = NumFeatures

\* line 161: the label is the classifier's own business
Classify ==
    /\ pc = "returned"
    /\ calls' = calls \cup {"classifier"}
    /\ IF ClassifierAccepts(features)
       THEN /\ \E label \in {0, 1} : prediction' = label
            /\ pc' = "classified"
            /\ error' = "none"
       ELSE /\ prediction' = -1
            /\ pc' = "crashed"
            /\ error' = "classifier"
    /\ UNCHANGED <<url, whoisRes, trafficRes, pageRes, now, features,
                   domain_clean, safe_points, verdict, prev>>

\* lines 163-181, show_debug being True as the page calls it
Breakdown ==
    /\ pc = "classified"
    /\ safe_points' = SafePoints(features)
    /\ verdict' = Heuristic(SafePoints(features))
    /\ pc' = "shown"
    /\ UNCHANGED <<url, whoisRes, trafficRes, pageRes, now, features,
                   domain_clean, calls, error, prediction, prev>>

Next ==
    \/ Submit
    \/ Warn
    \/ Resubmit
    \/ ResubmitRegistryDown
    \/ ResubmitFetchDown
    \/ Forget
    \/ Lexical
    \/ Registry
    \/ Content
    \/ Classify
    \/ Breakdown

Spec == Init /\ [][Next]_vars

(***************************************************************************)
(* Properties.                                                             *)
(***************************************************************************)
\* feature_extraction has returned its list in the current run
Extracted ==
    \/ pc \in {"returned", "classified", "shown"}
    \/ pc = "crashed" /\ error = "classifier"

\* the registry group of the current run is complete
AfterRegistry == pc = "content" \/ Extracted

\* the vector with the path depth as a flag
Binarized(fs) ==
    [k \in 1..Len(fs) |-> IF k = 4 THEN (IF fs[k] = 0 THEN 0 ELSE 1) ELSE fs[k]]

\* the host position of a URL: of the authority (or, when the URL has
\* none, of what precedes the first "/"), the part without user info and
\* port, a bracketed host without its brackets (SplitResult.hostname)
HostOf(u) ==
    LET parsed == urlparse(u)
        netloc == IF parsed.netloc # <<>> THEN parsed.netloc
                  ELSE Before(parsed.path, "/")
        hostinfo == From(netloc, RFind(netloc, <<"@">>) + 1)
        bracket == Find(hostinfo, <<"[">>)
    IN  IF bracket >= 0 THEN Before(From(hostinfo, bracket + 1), "]")
        ELSE Before(hostinfo, ":")

\* C1: the vector feature_extraction returns has exactly 16 elements, each
\* 0 or 1 except the 4th, the path depth, which is a natural number.
C1_VectorShape ==
    pc = "returned" =>
        /\ Len(features) = 16
        /\ \A k \in 1..Len(features) :
              IF k = 4 THEN features[k] \in Nat ELSE features[k] \in {0, 1}

\* C2: feature_extraction never fails as a whole: no lexical sub-check
\* raises and no exception reaches the caller of feature_extraction.
C2_NeverFails == error # "ValueError"

\* C3: when the registry lookup raises, slots 9 to 12 are all 1 and the
\* registry group has added exactly four values to the eight lexical ones.
C3_RegistryFallback ==
    (AfterRegistry /\ ~whoisRes.ok) =>
        /\ Len(features) >= 12
        /\ SubSeq(features, 9, 12) = <<1, 1, 1, 1>>
        /\ pc = "content" => Len(features) = 12

\* a run whose registry lookup raised and whose page answered returns a
\* vector whose content group was computed
C3_Witness ==
    /\ pc = "returned"
    /\ ~whoisRes.ok
    /\ pageRes.ok
    /\ Len(features) = 16
    /\ features[13] = 0

\* C4: when the page fetch raises, or a content sub-check raises after the
\* fetch, the returned vector has 16 elements and slots 13 to 16 are
\* [1,1,1,1].
C4_ContentFallback ==
    (pc = "returned" /\ (~pageRes.ok \/ pageRes.failAt # "none")) =>
        /\ Len(features) = 16
        /\ SubSeq(features, 13, 16) = <<1, 1, 1, 1>>

\* the part of C5 about the two lookups: against the run before it, a run
\* whose registry lookup fails keeps the lexical and the content slots and
\* still fetches the page, and a run whose fetch fails keeps the lexical and
\* the registry slots
FrameOfLookupFailures ==
    /\ (Extracted /\ prev.kind = "registryDown" /\ prev.returned) =>
          /\ SubSeq(features, 1, 8) = SubSeq(prev.vec, 1, 8)
          /\ SubSeq(features, 13, Len(features))
                = SubSeq(prev.vec, 13, Len(prev.vec))
          /\ "fetch" \in calls
    /\ (Extracted /\ prev.kind = "fetchDown" /\ prev.returned) =>
          SubSeq(features, 1, 12) = SubSeq(prev.vec, 1, 12)

\* C5: the analyzers are independent: a failing registry lookup leaves the
\* lexical and content slots as they were and the page is still fetched, a
\* failing fetch leaves the lexical and registry slots as they were, and no
\* analyzer's failure keeps another analyzer from running: every run that
\* ends has called the registry and fetched the page.
C5_AnalyzersIndependent ==
    /\ FrameOfLookupFailures
    /\ Finished => {"whois", "fetch"} \subseteq calls

\* C6: the heuristic reports "likely safe" exactly when safe_points >= 11,
\* whatever the classifier's label.
C6_HeuristicThreshold ==
    pc = "shown" => (verdict = "safe" <=> safe_points >= 11)

C8_HasIp ==
    pc = "registry" => (features[1] = 1 <=> IsIPAddress(HostOf(url)))

C10_TrafficDecoupled ==
    (AfterRegistry /\ whoisRes.ok /\ ~trafficRes.ok) =>
        /\ Len(features) >= 12
        /\ features[9] = 0
        /\ features[10] = 1
        /\ features[11] = domain_age(whoisRes).v
        /\ features[12] = domain_end(whoisRes, now).v
        /\ pc = "content" => Len(features) = 12

\* the rank lookup failed and both date flags came out 0
C10_Witness ==
    /\ pc = "returned"
    /\ whoisRes.ok
    /\ ~trafficRes.ok
    /\ features[11] = 0
    /\ features[12] = 0

====
